---- MODULE Spec2Model ----
(***************************************************************************)
(* The trust/credential subsystem of the face-identity service:            *)
(*   src/server/utils/rsa_keys.py    RSAKeyManager (rotating key store)    *)
(*   src/server/utils/jwt_helper.py  create_signed_jwt / verify_signed_jwt *)
(*   src/server/app.py               lifespan (starts/cancels the rotator) *)
(*                                                                         *)
(* A key pair is identified by its generation number 1, 2, 3, ...; the     *)
(* public key of generation g verifies exactly the signatures made with    *)
(* the private key of generation g.  None is 0 for keys and <<>> for kids. *)
(* Time is counted in minutes.                                             *)
(***************************************************************************)
EXTENDS Integers, Sequences, FiniteSets, TLC

\* ------------------------------------------------------------- bounds
MaxGen == 3        \* key generations ever created (construction included)
MaxTime == 30      \* the clock stops here
TimeStep == 5      \* granularity of the clock
MaxSuffix == 1     \* secrets.token_hex(4) draws from 0..MaxSuffix
LongTtl == 60      \* a caller-chosen expires_in_minutes longer than the default

\* -------------------------------------------------- program constants
Interval == 15     \* rotation_interval_minutes of the module's rsa_manager
DefaultTtl == 5    \* create_signed_jwt's default expires_in_minutes

NoKey == 0
NoKid == <<>>
None == "None"

\* --------------------------------------------------------------- tokens
\* A token is [sig, kid, claims, form]: the generation of the private key that
\* signed it (0: a key this store never held), the kid of its header, its
\* payload, and "ok", "badheader" (the header does not parse), "badalg" (the
\* header names an algorithm other than RS256), "badpayload" (the payload segment
\* is base64 but not a JSON object) or "unencodable" (a str that UTF-8 cannot
\* encode: it holds a lone surrogate).
BogusKid == <<-1, 0>>
NoPayload == [uid |-> "none"]
NoToken == [sig |-> NoKey, kid |-> NoKid, claims |-> NoPayload, form |-> "none"]
\* a time the clock never reaches
Never == MaxTime + LongTtl
\* The payloads a caller supplies: application claims, alone or with the four keys
\* create_signed_jwt sets itself.  A registered claim that only jwt.decode
\* interprets (nbf) is not among them.
PlainPayload == [uid |-> "u1"]
ReservedPayload == [uid |-> "u1", iss |-> "evil-service", aud |-> "evil-service",
                    iat |-> Never, exp |-> Never]
Payloads == {PlainPayload, ReservedPayload}
Ttls == {DefaultTtl, Interval, LongTtl}
Reserved == {"iat", "exp", "iss", "aud"}

\* stamp with the caller's keys lost
stamp_drops_payload(payload, t, ttl) ==
    [iat |-> t, exp |-> t + ttl, iss |-> "face-service", aud |-> "core-service"]

\* stamp with the dict built the other way round: {"iat": ..., ..., **payload}
stamp_caller_wins(payload, t, ttl) ==
    LET injected == [iat |-> t, exp |-> t + ttl, iss |-> "face-service", aud |-> "core-service"]
    IN  [k \in DOMAIN payload \cup DOMAIN injected |->
            IF k \in DOMAIN payload THEN payload[k] ELSE injected[k]]

\* jwt_helper.py lines 16-22: {**payload, "iat": ..., "exp": ..., "iss": ..., "aud": ...}
stamp(payload, t, ttl) ==
    LET injected == [iat |-> t, exp |-> t + ttl, iss |-> "face-service", aud |-> "core-service"]
    IN  [k \in DOMAIN payload \cup DOMAIN injected |->
            IF k \in DOMAIN injected THEN injected[k] ELSE payload[k]]

\* jwt.encode(payload, private_pem, algorithm="RS256", headers={"kid": kid})
jwt_encode(payload, private_pem, kid) ==
    [sig |-> private_pem, kid |-> kid, claims |-> payload, form |-> "ok"]

\* jwt_decode with verify_aud off
jwt_decode_without_aud(tok, public_pem, t) ==
    LET c == tok.claims IN
    IF tok.form \notin {"ok", "badpayload"} THEN "invalid"
    ELSE IF tok.sig # public_pem \/ tok.sig = NoKey THEN "next"
    ELSE IF tok.form = "badpayload" THEN "invalid"
    ELSE IF "iat" \in DOMAIN c /\ c.iat > t THEN "invalid"
    ELSE IF "nbf" \in DOMAIN c /\ c.nbf > t THEN "invalid"
    ELSE IF "exp" \in DOMAIN c /\ c.exp <= t THEN "expired"
    ELSE IF "iss" \notin DOMAIN c THEN "invalid"
    ELSE IF c.iss # "face-service" THEN "next"
    ELSE "ok"

\* jwt.decode(token, public_pem, algorithms=["RS256"], audience="core-service",
\* issuer="face-service", options=...) at clock t: "ok", or the handler its
\* exception reaches: "expired" (ExpiredSignatureError), "next" (InvalidSignatureError,
\* InvalidAudienceError, InvalidIssuerError), "invalid" (any other InvalidTokenError:
\* DecodeError, InvalidAlgorithmError, ImmatureSignatureError for an iat or nbf in
\* the future, MissingRequiredClaimError).  The algorithm is checked first, then
\* the signature is verified, and only then is the payload parsed and are the
\* claims looked at, in the order iat, nbf, exp, iss, aud.
jwt_decode(tok, public_pem, t) ==
    LET c == tok.claims IN
    IF tok.form \notin {"ok", "badpayload"} THEN "invalid"
    ELSE IF tok.sig # public_pem \/ tok.sig = NoKey THEN "next"
    ELSE IF tok.form = "badpayload" THEN "invalid"
    ELSE IF "iat" \in DOMAIN c /\ c.iat > t THEN "invalid"
    ELSE IF "nbf" \in DOMAIN c /\ c.nbf > t THEN "invalid"
    ELSE IF "exp" \in DOMAIN c /\ c.exp <= t THEN "expired"
    ELSE IF "iss" \notin DOMAIN c THEN "invalid"
    ELSE IF c.iss # "face-service" THEN "next"
    ELSE IF "aud" \notin DOMAIN c THEN "invalid"
    ELSE IF c.aud # "core-service" THEN "next"
    ELSE "ok"

VARIABLES
    now,                    \* wall clock, minutes
    is_prod,                \* RSAKeyManager.is_prod
    phase,                  \* "boot" (inside __init__), "ready", "failed"
    lock,                   \* RSAKeyManager._lock is held
    current_private_key,    \* RSAKeyManager._current_private_key
    current_public_key,     \* RSAKeyManager._current_public_key
    current_kid,            \* RSAKeyManager._current_kid
    previous_public_key,    \* RSAKeyManager._previous_public_key
    previous_kid,           \* RSAKeyManager._previous_kid
    last_rotation,          \* RSAKeyManager._last_rotation (-1: None)
    gk_pc,                  \* position inside generate_keys
    gk_key,                 \* generate_keys' local private_key
    gk_caller,              \* "init" or "rotator"
    gen,                    \* key pairs generated so far
    kid_of,                 \* history: kid_of[g] is the kid given to generation g
    rot,                    \* the rotation task: off, sleeping, running, crashed, cancelled
    wake_at,                \* when the task's asyncio.sleep ends
    failures,               \* history: generate_keys calls that raised
    pre,                    \* history: the store when generate_keys was entered
    i_pc,                   \* the create_signed_jwt call followed: idle, encode, returned
    i_payload,              \* its argument payload
    i_ttl,                  \* its argument expires_in_minutes
    i_pem,                  \* its local private_pem
    i_now,                  \* the clock when line 13 returned: the least its local now can be
    i_born,                 \* history: Completed when the call began
    issued,                 \* the token that call returned (a set of at most one), with its history
    v_pc,                   \* verify_signed_jwt: idle, get_public_pem, ..., done, raised
    v_tok,                  \* its argument token
    v_pem,                  \* the public key read on line 50, later prev_pem
    v_keys,                 \* its local keys_to_try
    v_result,               \* what it returned: {} for None, {claims} for claims
    v_tried,                \* candidates handed to jwt.decode
    v_why,                  \* why the loop ended
    v_time,                 \* the clock jwt.decode read
    v_born,                 \* history: Completed when the call began
    v_read,                 \* history: keys_to_try as lines 50-53 built it, before the sort
    j_pc,                   \* a caller of get_public_jwk or get_rotation_info: idle, done, info, raised
    j_result,               \* the list under "keys", or the list of the one rotation info, it was given
    j_born                  \* history: Completed at the call

store == <<current_private_key, current_public_key, current_kid,
           previous_public_key, previous_kid, last_rotation>>
gkvars == <<gk_pc, gk_key, gk_caller, gen, kid_of, failures, pre>>
rotvars == <<rot, wake_at>>
ivars == <<i_pc, i_payload, i_ttl, i_pem, i_now, i_born, issued>>
vvars == <<v_pc, v_tok, v_pem, v_keys, v_result, v_tried, v_why, v_time, v_born, v_read>>
jvars == <<j_pc, j_result, j_born>>
mgr == <<is_prod, phase, lock, store, gkvars, rotvars>>
vars == <<now, mgr, ivars, vvars, jvars>>

\* -------------------------------------------------- RSAKeyManager accessors
\* Each but get_private_pem runs under "with self._lock:".
get_private_key == current_private_key
get_private_pem == current_private_key
get_public_pem == current_public_key
\* get_previous_public_pem that never has a previous key
get_previous_public_pem_none == NoKey
get_previous_public_pem == previous_public_key
get_current_kid == current_kid
get_previous_kid == previous_kid

\* RSAKeyManager._key_to_jwk: n and e encode the public key
key_to_jwk(public_key, kid) ==
    [kty |-> "RSA", alg |-> "RS256", use |-> "sig", kid |-> kid, n |-> public_key, e |-> 65537]

\* get_public_jwk without the previous entry
get_public_jwk_current_only ==
    <<key_to_jwk(current_public_key, current_kid)>>

\* RSAKeyManager.get_public_jwk: the list under "keys"
get_public_jwk ==
    IF previous_public_key # NoKey /\ previous_kid # NoKid
      THEN <<key_to_jwk(current_public_key, current_kid),
             key_to_jwk(previous_public_key, previous_kid)>>
      ELSE <<key_to_jwk(current_public_key, current_kid)>>

\* RSAKeyManager.get_rotation_info: the dict it returns (-1: None)
get_rotation_info ==
    [last_rotation |-> last_rotation,
     next_rotation |-> IF last_rotation # -1 THEN last_rotation + Interval ELSE -1,
     current_kid |-> current_kid,
     previous_kid |-> previous_kid,
     rotation_interval_minutes |-> Interval]

\* a kid made of the random suffix alone
generate_kid_without_timestamp(ts, suffix) == <<0, suffix>>

\* RSAKeyManager._generate_kid: "face-service-<timestamp>-<random suffix>"
generate_kid(ts, suffix) == <<ts, suffix>>

\* generate_keys calls that have returned normally
Completed == Len(kid_of)

\* RSAKeyManager.__init__ up to its call of generate_keys
Init ==
    /\ now = 0
    /\ is_prod \in BOOLEAN
    /\ phase = "boot"
    /\ lock = FALSE
    /\ current_private_key = NoKey
    /\ current_public_key = NoKey
    /\ current_kid = NoKid
    /\ previous_public_key = NoKey
    /\ previous_kid = NoKid
    /\ last_rotation = -1
    /\ gk_pc = "idle"
    /\ gk_key = NoKey
    /\ gk_caller = None
    /\ gen = 0
    /\ kid_of = <<>>
    /\ rot = "off"
    /\ wake_at = 0
    /\ failures = 0
    /\ pre = store
    /\ i_pc = "idle"
    /\ i_payload = NoPayload
    /\ i_ttl = 0
    /\ i_pem = NoKey
    /\ i_now = 0
    /\ i_born = 0
    /\ issued = {}
    /\ v_pc = "idle"
    /\ v_tok = NoToken
    /\ v_pem = NoKey
    /\ v_keys = <<>>
    /\ v_result = {}
    /\ v_tried = 0
    /\ v_why = None
    /\ v_time = 0
    /\ v_born = 0
    /\ v_read = <<>>
    /\ j_pc = "idle"
    /\ j_result = <<>>
    /\ j_born = 0

\* ------------------------------------------------------ generate_keys
\* "with self._lock:" entered by caller c
gk_enter(c) ==
    /\ gk_pc = "idle"
    /\ lock = FALSE
    /\ lock' = TRUE
    /\ gk_pc' = "keygen"
    /\ gk_caller' = c
    /\ pre' = store
    /\ UNCHANGED <<gk_key, gen, kid_of, failures>>

\* line 29: __init__ calls generate_keys
init_generate_keys ==
    /\ phase = "boot"
    /\ gk_enter("init")
    /\ UNCHANGED <<now, is_prod, phase, store, rotvars, ivars, vvars, jvars>>

\* a key generation that takes the local branch whatever is_prod says
gk_keygen_ok_ignores_prod ==
    /\ gk_pc = "keygen"
    /\ gen < MaxGen
    /\ gen' = gen + 1
    /\ gk_key' = gen + 1
    /\ gk_pc' = "save_previous"
    /\ UNCHANGED <<now, is_prod, phase, lock, store, gk_caller, kid_of, failures, pre, rotvars, ivars, vvars, jvars>>

\* lines 40-45: a key pair is generated
gk_keygen_ok ==
    /\ gk_pc = "keygen"
    /\ ~is_prod
    /\ gen < MaxGen
    /\ gen' = gen + 1
    /\ gk_key' = gen + 1
    /\ gk_pc' = "save_previous"
    /\ UNCHANGED <<now, is_prod, phase, lock, store, gk_caller, kid_of, failures, pre, rotvars, ivars, vvars, jvars>>

\* a generate_keys that raises after lines 52-54 have run
gk_raised_after_shift ==
    /\ lock' = FALSE
    /\ gk_pc' = "idle"
    /\ gk_caller' = None
    /\ failures' = failures + 1
    /\ phase' = IF gk_caller = "init" THEN "failed" ELSE phase
    /\ rot' = IF gk_caller = "rotator" THEN "crashed" ELSE rot
    /\ previous_public_key' = current_public_key
    /\ previous_kid' = current_kid
    /\ UNCHANGED <<now, is_prod, current_private_key, current_public_key, current_kid,
                   last_rotation, gk_key, gen, kid_of, pre, wake_at, ivars, vvars, jvars>>

\* an exception that leaves generate_keys with the lock still held
gk_raised_keeps_lock ==
    /\ gk_pc' = "idle"
    /\ gk_caller' = None
    /\ failures' = failures + 1
    /\ phase' = IF gk_caller = "init" THEN "failed" ELSE phase
    /\ rot' = IF gk_caller = "rotator" THEN "crashed" ELSE rot
    /\ UNCHANGED <<now, is_prod, lock, store, gk_key, gen, kid_of, pre, wake_at, ivars, vvars, jvars>>

\* what the caller of a generate_keys that raised is left with
gk_raised ==
    /\ lock' = FALSE
    /\ gk_pc' = "idle"
    /\ gk_caller' = None
    /\ failures' = failures + 1
    /\ phase' = IF gk_caller = "init" THEN "failed" ELSE phase
    /\ rot' = IF gk_caller = "rotator" THEN "crashed" ELSE rot
    /\ UNCHANGED <<now, is_prod, store, gk_key, gen, kid_of, pre, wake_at, ivars, vvars, jvars>>

\* lines 46-49 (production: NotImplementedError) and a failing
\* rsa.generate_private_key; the with-block releases the lock
gk_keygen_fail ==
    /\ gk_pc = "keygen"
    /\ gk_raised

\* lines 52-54 filling previous only while it is empty: the oldest key is never evicted
gk_save_previous_keeps_oldest ==
    /\ gk_pc = "save_previous"
    /\ IF current_public_key # NoKey /\ previous_public_key = NoKey
         THEN /\ previous_public_key' = current_public_key
              /\ previous_kid' = current_kid
         ELSE UNCHANGED <<previous_public_key, previous_kid>>
    /\ gk_pc' = "set_private"
    /\ UNCHANGED <<now, is_prod, phase, lock, current_private_key, current_public_key,
                   current_kid, last_rotation, gk_key, gk_caller, gen, kid_of,
                   failures, pre, rotvars, ivars, vvars, jvars>>

\* lines 52-54 without line 54: the previous kid is never kept
gk_save_previous_without_kid ==
    /\ gk_pc = "save_previous"
    /\ IF current_public_key # NoKey
         THEN previous_public_key' = current_public_key
         ELSE UNCHANGED previous_public_key
    /\ gk_pc' = "set_private"
    /\ UNCHANGED <<now, is_prod, phase, lock, current_private_key, current_public_key,
                   current_kid, previous_kid, last_rotation, gk_key, gk_caller, gen, kid_of,
                   failures, pre, rotvars, ivars, vvars, jvars>>

\* lines 52-54
gk_save_previous ==
    /\ gk_pc = "save_previous"
    /\ IF current_public_key # NoKey
         THEN /\ previous_public_key' = current_public_key
              /\ previous_kid' = current_kid
         ELSE UNCHANGED <<previous_public_key, previous_kid>>
    /\ gk_pc' = "set_private"
    /\ UNCHANGED <<now, is_prod, phase, lock, current_private_key, current_public_key,
                   current_kid, last_rotation, gk_key, gk_caller, gen, kid_of,
                   failures, pre, rotvars, ivars, vvars, jvars>>

\* line 57
gk_set_private ==
    /\ gk_pc = "set_private"
    /\ current_private_key' = gk_key
    /\ gk_pc' = "set_public"
    /\ UNCHANGED <<now, is_prod, phase, lock, current_public_key, current_kid,
                   previous_public_key, previous_kid, last_rotation, gk_key, gk_caller,
                   gen, kid_of, failures, pre, rotvars, ivars, vvars, jvars>>

\* lines 58-62 and the release of the lock; the caller continues
gk_finish ==
    /\ gk_pc = "set_public"
    /\ \E suffix \in 0..MaxSuffix :
         /\ current_kid' = generate_kid(now, suffix)
         /\ kid_of' = Append(kid_of, generate_kid(now, suffix))
    /\ current_public_key' = gk_key
    /\ last_rotation' = now
    /\ lock' = FALSE
    /\ gk_pc' = "idle"
    /\ gk_key' = NoKey
    /\ gk_caller' = None
    /\ phase' = IF gk_caller = "init" THEN "ready" ELSE phase
    /\ rot' = IF gk_caller = "rotator" THEN "sleeping" ELSE rot
    /\ wake_at' = IF gk_caller = "rotator" THEN now + Interval ELSE wake_at
    /\ UNCHANGED <<now, is_prod, current_private_key, previous_public_key, previous_kid,
                   gen, failures, pre, ivars, vvars, jvars>>

\* ------------------------------------------------------- the rotator
\* app.py line 79: the task is created and reaches its first sleep
start_rotation ==
    /\ phase = "ready"
    /\ rot = "off"
    /\ rot' = "sleeping"
    /\ wake_at' = now + Interval
    /\ UNCHANGED <<now, is_prod, phase, lock, store, gkvars, ivars, vvars, jvars>>

\* a rotator that calls generate_keys without waiting for its sleep to end
rotation_tick_without_sleep ==
    /\ rot = "sleeping"
    /\ gen < MaxGen
    /\ gk_enter("rotator")
    /\ rot' = "running"
    /\ wake_at' = 0
    /\ UNCHANGED <<now, is_prod, phase, store, ivars, vvars, jvars>>

\* rsa_keys.py lines 34-35: the sleep is over, generate_keys is called
rotation_tick ==
    /\ rot = "sleeping"
    /\ now >= wake_at
    /\ gen < MaxGen
    /\ gk_enter("rotator")
    /\ rot' = "running"
    /\ wake_at' = 0
    /\ UNCHANGED <<now, is_prod, phase, store, ivars, vvars, jvars>>

\* a cancellation that takes effect wherever the task stands, abandoning a
\* generate_keys call in progress (its with-block releases the lock)
cancel_rotation_mid_call ==
    /\ rot \in {"sleeping", "running"}
    /\ rot' = "cancelled"
    /\ wake_at' = 0
    /\ lock' = FALSE
    /\ gk_pc' = "idle"
    /\ gk_key' = NoKey
    /\ gk_caller' = None
    /\ UNCHANGED <<now, is_prod, phase, store, gen, kid_of, failures, pre, ivars, vvars, jvars>>

\* app.py line 83: the task is cancelled; it is suspended only in its sleep
cancel_rotation ==
    /\ rot = "sleeping"
    /\ rot' = "cancelled"
    /\ wake_at' = 0
    /\ UNCHANGED <<now, is_prod, phase, lock, store, gkvars, ivars, vvars, jvars>>

\* app.py lines 79-83: requests are served between the start of the rotation task
\* and its cancellation
Serving == rot \in {"sleeping", "running", "crashed"}

\* -------------------------------------------------- create_signed_jwt
\* line 13: private_pem = rsa_manager.get_private_pem() (no lock is taken)
create_begin ==
    /\ Serving
    /\ i_pc = "idle"
    /\ \E payload \in Payloads, ttl \in Ttls :
         /\ i_payload' = payload
         /\ i_ttl' = ttl
    /\ i_pem' = get_private_pem
    /\ i_now' = now
    /\ i_born' = Completed
    /\ i_pc' = "encode"
    /\ UNCHANGED <<now, mgr, issued, vvars, jvars>>

\* the values the clock has shown from time a to time b
clock_reads(a, b) == {t \in a..b : t % TimeStep = 0}

\* lines 15-28: the clock is read (line 15, at some moment after line 13 returned
\* and before line 27), the payload is stamped, get_current_kid() is read under
\* the lock, the token is signed and returned
create_encode ==
    /\ i_pc = "encode"
    /\ lock = FALSE
    /\ \E t \in clock_reads(i_now, now) :
         issued' = {[token |-> jwt_encode(stamp(i_payload, t, i_ttl), i_pem, get_current_kid),
                     supplied |-> i_payload, ttl |-> i_ttl, born |-> i_born, at |-> t]}
    /\ i_pc' = "returned"
    /\ i_payload' = NoPayload
    /\ i_ttl' = 0
    /\ i_pem' = NoKey
    /\ i_now' = 0
    /\ i_born' = 0
    /\ UNCHANGED <<now, mgr, vvars, jvars>>

\* -------------------------------------------------- verify_signed_jwt
\* a sort that puts the candidate the header names last
sort_keys_matching_last(keys, token_kid) ==
    IF Len(keys) = 2 /\ keys[1][2] = token_kid /\ keys[2][2] # token_kid
      THEN <<keys[2], keys[1]>>
      ELSE keys

\* line 57: keys_to_try.sort(key=lambda x: x[1] != token_kid), a stable sort
sort_keys(keys, token_kid) ==
    IF Len(keys) = 2 /\ keys[1][2] # token_kid /\ keys[2][2] = token_kid
      THEN <<keys[2], keys[1]>>
      ELSE keys

\* lines 56-57
order_keys(keys, token_kid) ==
    IF token_kid # NoKid THEN sort_keys(keys, token_kid) ELSE keys

\* a loop that ends at the first candidate whatever jwt.decode raised
ends_loop_on_mismatch(outcome) == TRUE

\* a loop that goes on to the next candidate after ExpiredSignatureError
ends_loop_not_on_expiry(outcome) == outcome \notin {"next", "expired"}

\* what a candidate's jwt.decode makes the loop do: return (TRUE) or continue
ends_loop(outcome) == outcome # "next"

\* lines 59-92, from candidate i on
RECURSIVE try_keys(_, _, _, _)
try_keys(keys, i, tok, t) ==
    IF i > Len(keys)
      THEN [result |-> {}, tried |-> Len(keys), why |-> "exhausted"]
      ELSE LET outcome == jwt_decode(tok, keys[i][1], t) IN
           IF ends_loop(outcome)
             THEN [result |-> IF outcome = "ok" THEN {tok.claims} ELSE {},
                   tried |-> i, why |-> outcome]
             ELSE try_keys(keys, i + 1, tok, t)

\* lines 43-47 for the argument tok: jwt.get_unverified_header encodes a str
\* token as UTF-8 (UnicodeEncodeError, a ValueError, is not caught by line 46),
\* then splits it and parses the header (DecodeError, caught)
verify_begin(tok) ==
    /\ Serving
    /\ v_pc = "idle"
    /\ v_tok' = tok
    /\ v_born' = Completed
    /\ CASE tok.form = "unencodable" ->
              /\ v_pc' = "raised"
              /\ v_why' = "UnicodeEncodeError"
         [] tok.form = "badheader" ->
              /\ v_pc' = "done"
              /\ v_why' = "header"
         [] OTHER ->
              /\ v_pc' = "get_public_pem"
              /\ v_why' = None
    /\ v_result' = {}
    /\ v_tried' = 0
    /\ v_keys' = <<>>
    /\ v_read' = <<>>
    /\ UNCHANGED <<now, mgr, ivars, jvars, v_pem, v_time>>

\* a caller verifies the token create_signed_jwt returned
verify_issued ==
    \E t \in issued : verify_begin(t.token)

\* ------------------------------------------ tokens not made by create_signed_jwt
\* A caller may hand verify_signed_jwt any string.  The forms that matter: signed
\* with a key of its own (sig 0) or with a private key the store has handed out
\* (get_private_key, get_private_pem), any kid or none in the header, any claims, a
\* payload that is no JSON object, a broken header, a foreign algorithm, or a str
\* that is not UTF-8 text.
claims_of(iat, exp, iss, aud) ==
    [uid |-> "u1", iat |-> iat, exp |-> exp, iss |-> iss, aud |-> aud]
CraftedClaims ==
    { claims_of(0, Never, "face-service", "core-service"),
      claims_of(0, Never, "evil-service", "core-service"),
      claims_of(0, Never, "face-service", "evil-service"),
      claims_of(0, DefaultTtl, "face-service", "core-service"),
      claims_of(0, DefaultTtl, "face-service", "evil-service"),
      claims_of(Never, Never, "face-service", "core-service") }
KnownKids == {kid_of[g] : g \in 1..Len(kid_of)}
Crafted ==
    { [sig |-> s, kid |-> k, claims |-> c, form |-> "ok"] :
        s \in 0..current_private_key, k \in {NoKid, BogusKid} \cup KnownKids, c \in CraftedClaims }
    \cup { [sig |-> s, kid |-> k, claims |-> NoPayload, form |-> "badpayload"] :
             s \in 0..current_private_key, k \in {NoKid} \cup KnownKids }
    \cup { [sig |-> NoKey, kid |-> NoKid, claims |-> NoPayload, form |-> f] :
             f \in {"badheader", "badalg", "unencodable"} }

\* a caller verifies a token of its own making
verify_crafted ==
    \E tok \in Crafted : verify_begin(tok)

\* line 50, first element of the tuple
verify_get_public_pem ==
    /\ v_pc = "get_public_pem"
    /\ lock = FALSE
    /\ v_pem' = get_public_pem
    /\ v_pc' = "get_current_kid"
    /\ UNCHANGED <<now, mgr, ivars, jvars, v_tok, v_keys, v_result, v_tried, v_why, v_time, v_born, v_read>>

\* line 50, second element
verify_get_current_kid ==
    /\ v_pc = "get_current_kid"
    /\ lock = FALSE
    /\ v_keys' = <<<<v_pem, get_current_kid>>>>
    /\ v_pem' = NoKey
    /\ v_pc' = "get_previous_public_pem"
    /\ UNCHANGED <<now, mgr, ivars, jvars, v_tok, v_result, v_tried, v_why, v_time, v_born, v_read>>

\* line 52, prev_pem; None ends the condition
verify_get_previous_public_pem ==
    /\ v_pc = "get_previous_public_pem"
    /\ lock = FALSE
    /\ v_pem' = get_previous_public_pem
    /\ v_pc' = IF get_previous_public_pem = NoKey THEN "decode" ELSE "get_previous_kid"
    /\ UNCHANGED <<now, mgr, ivars, jvars, v_tok, v_keys, v_result, v_tried, v_why, v_time, v_born, v_read>>

\* lines 52-53, prev_kid and the append
verify_get_previous_kid ==
    /\ v_pc = "get_previous_kid"
    /\ lock = FALSE
    /\ v_keys' = IF get_previous_kid # NoKid
                   THEN Append(v_keys, <<v_pem, get_previous_kid>>)
                   ELSE v_keys
    /\ v_pem' = NoKey
    /\ v_pc' = "decode"
    /\ UNCHANGED <<now, mgr, ivars, jvars, v_tok, v_result, v_tried, v_why, v_time, v_born, v_read>>

\* lines 56-92
verify_decode ==
    /\ v_pc = "decode"
    /\ LET keys == order_keys(v_keys, v_tok.kid)
           r == try_keys(keys, 1, v_tok, now)
       IN  /\ v_keys' = keys
           /\ v_read' = v_keys
           /\ v_result' = r.result
           /\ v_tried' = r.tried
           /\ v_why' = r.why
    /\ v_time' = now
    /\ v_pem' = NoKey
    /\ v_pc' = "done"
    /\ UNCHANGED <<now, mgr, ivars, jvars, v_tok, v_born>>

\* the caller has the result or the exception
verify_return ==
    /\ v_pc \in {"done", "raised"}
    /\ v_pc' = "idle"
    /\ v_tok' = NoToken
    /\ v_pem' = NoKey
    /\ v_keys' = <<>>
    /\ v_result' = {}
    /\ v_tried' = 0
    /\ v_why' = None
    /\ v_time' = 0
    /\ v_born' = 0
    /\ v_read' = <<>>
    /\ UNCHANGED <<now, mgr, ivars, jvars>>


\* -------------------------------------------------- a caller of get_public_jwk
\* get_public_jwk reading the fields without taking the lock
jwks_call_without_lock ==
    /\ phase = "ready"
    /\ j_pc = "idle"
    /\ IF current_public_key = NoKey \/ current_kid = NoKid
         THEN /\ j_pc' = "raised"
              /\ j_result' = <<>>
         ELSE /\ j_pc' = "done"
              /\ j_result' = get_public_jwk
    /\ j_born' = Completed
    /\ UNCHANGED <<now, mgr, ivars, vvars>>

\* rsa_keys.py lines 124-138, under the lock
jwks_call ==
    /\ phase = "ready"
    /\ j_pc = "idle"
    /\ lock = FALSE
    /\ IF current_public_key = NoKey \/ current_kid = NoKid
         THEN /\ j_pc' = "raised"
              /\ j_result' = <<>>
         ELSE /\ j_pc' = "done"
              /\ j_result' = get_public_jwk
    /\ j_born' = Completed
    /\ UNCHANGED <<now, mgr, ivars, vvars>>

\* get_rotation_info that also stamps the time of the call into the store
info_call_stamping ==
    /\ phase = "ready"
    /\ j_pc = "idle"
    /\ lock = FALSE
    /\ j_pc' = "info"
    /\ j_result' = <<get_rotation_info>>
    /\ j_born' = Completed
    /\ last_rotation' = now
    /\ UNCHANGED <<now, is_prod, phase, lock, current_private_key, current_public_key,
                   current_kid, previous_public_key, previous_kid, gkvars, rotvars,
                   ivars, vvars>>

\* rsa_keys.py lines 163-174: get_rotation_info, under the lock
info_call ==
    /\ phase = "ready"
    /\ j_pc = "idle"
    /\ lock = FALSE
    /\ j_pc' = "info"
    /\ j_result' = <<get_rotation_info>>
    /\ j_born' = Completed
    /\ UNCHANGED <<now, mgr, ivars, vvars>>

\* rsa_keys.py lines 70-75: get_private_key, under the lock
key_call ==
    /\ phase = "ready"
    /\ j_pc = "idle"
    /\ lock = FALSE
    /\ IF current_private_key = NoKey
         THEN /\ j_pc' = "raised"
              /\ j_result' = <<>>
         ELSE /\ j_pc' = "key"
              /\ j_result' = <<[private_key |-> get_private_key]>>
    /\ j_born' = Completed
    /\ UNCHANGED <<now, mgr, ivars, vvars>>

\* the caller has the key set or the rotation info
jwks_return ==
    /\ j_pc # "idle"
    /\ j_pc' = "idle"
    /\ j_result' = <<>>
    /\ j_born' = 0
    /\ UNCHANGED <<now, mgr, ivars, vvars>>

\* The clock; it starts when the rotation task does.
Tick ==
    /\ rot # "off"
    /\ now + TimeStep <= MaxTime
    /\ now' = now + TimeStep
    /\ UNCHANGED <<is_prod, phase, lock, store, gkvars, rotvars, ivars, vvars, jvars>>

Manager ==
    \/ init_generate_keys
    \/ gk_keygen_ok
    \/ gk_keygen_fail
    \/ gk_save_previous
    \/ gk_set_private
    \/ gk_finish
    \/ start_rotation
    \/ rotation_tick
    \/ cancel_rotation
    \/ Tick

Next ==
    \/ Manager
    \/ create_begin
    \/ create_encode
    \/ verify_issued
    \/ verify_get_public_pem
    \/ verify_get_current_kid
    \/ verify_get_previous_public_pem
    \/ verify_get_previous_kid
    \/ verify_decode
    \/ verify_return

Spec == Init /\ [][Next]_vars

\* The key manager and a caller of verify_signed_jwt with tokens of its own making
NextV ==
    \/ Manager
    \/ verify_crafted
    \/ verify_get_public_pem
    \/ verify_get_current_kid
    \/ verify_get_previous_public_pem
    \/ verify_get_previous_kid
    \/ verify_decode
    \/ verify_return

SpecV == Init /\ [][NextV]_vars

\* The key manager and a caller of get_public_jwk and get_rotation_info
NextK ==
    \/ Manager
    \/ jwks_call
    \/ info_call
    \/ jwks_return

SpecK == Init /\ [][NextK]_vars

\* The same with a running event loop and a running clock: time passes, a sleep
\* that is over returns (rsa_keys.py line 34), and generate_keys, a synchronous
\* call, goes on to its return or its exception.
GkStep ==
    \/ gk_keygen_ok
    \/ gk_keygen_fail
    \/ gk_save_previous
    \/ gk_set_private
    \/ gk_finish

SpecF ==
    /\ Init
    /\ [][NextK]_vars
    /\ WF_vars(Tick)
    /\ WF_vars(rotation_tick)
    /\ WF_vars(GkStep)

\* Spec with threads that are scheduled: generate_keys goes on to its return or
\* its exception, and a caller of create_signed_jwt or verify_signed_jwt that
\* can take its next step (the lock it waits for is free) takes it.
VerifyStep ==
    \/ verify_get_public_pem
    \/ verify_get_current_kid
    \/ verify_get_previous_public_pem
    \/ verify_get_previous_kid
    \/ verify_decode

SpecL ==
    /\ Init
    /\ [][Next]_vars
    /\ WF_vars(GkStep)
    /\ WF_vars(create_encode)
    /\ WF_vars(VerifyStep)

\* The key manager with a caller of each operation: create_signed_jwt,
\* verify_signed_jwt, get_public_jwk, get_rotation_info and get_private_key
NextA ==
    \/ Next
    \/ jwks_call
    \/ info_call
    \/ key_call
    \/ jwks_return

SpecA == Init /\ [][NextA]_vars

\* ============================================================ claims
Live == {current_public_key, previous_public_key} \ {NoKey}

\* C1: a token create_signed_jwt signed with generation N, verified while at most
\* one generation has been created after N and before its exp, is accepted:
\* verify_signed_jwt returns its claims.
C1_OneRotationStillVerifies ==
    \A t \in issued :
        (/\ v_pc = "done"
         /\ v_tok = t.token
         /\ gen <= t.token.sig + 1
         /\ v_time < t.token.claims.exp)
        => v_result = {t.token.claims}

\* C1 witness: exactly one rotation completed between issue and verification
C1_Witness ==
    \E t \in issued :
        /\ v_pc = "done"
        /\ v_tok = t.token
        /\ t.born = t.token.sig
        /\ v_born = t.token.sig + 1
        /\ gen = t.token.sig + 1
        /\ v_keys[2][1] = t.token.sig
        /\ v_result = {t.token.claims}

\* C2: a token signed with generation N is rejected by every verify_signed_jwt
\* call that begins after two or more rotations have completed since N.
C2_TwoRotationsEvict ==
    \A t \in issued :
        (/\ v_pc = "done"
         /\ v_tok = t.token
         /\ v_born >= t.token.sig + 2)
        => v_result = {}

\* C2 witness: an unexpired token is rejected because its key was evicted
C2_Witness ==
    \E t \in issued :
        /\ v_pc = "done"
        /\ v_tok = t.token
        /\ v_born = t.token.sig + 2
        /\ v_time < t.token.claims.exp
        /\ v_why = "exhausted"
        /\ v_tried = 2
        /\ v_result = {}

\* C3: whenever the store can be read (the lock is free) and at most one rotation
\* has completed since a create_signed_jwt call began, the kid in the header of the
\* token it returned is the current kid or the previous kid.
C3_KidInKeySet ==
    \A t \in issued :
        (~lock /\ Completed <= t.born + 1)
        => t.token.kid \in {current_kid, previous_kid}

\* C3 witness: the rotation completed inside the create_signed_jwt call
C3_Witness ==
    \E t \in issued :
        /\ ~lock
        /\ Completed = t.born + 1
        /\ t.token.sig = t.born
        /\ t.token.kid = current_kid

\* C4 (as claimed): every token create_signed_jwt returns is signed with the private
\* key of the generation its header kid names.
C4_SignedByKidGeneration ==
    \A t \in issued : t.token.kid = kid_of[t.token.sig]

\* the kids of the candidates verify_signed_jwt built
CandidateKids == {v_keys[i][2] : i \in 1..Len(v_keys)}

\* C5 (as claimed): an expired token whose header kid is the kid of a candidate is
\* rejected after exactly one candidate has been tried.
C5_ExpiredTriesOneKey ==
    (/\ v_pc = "done"
     /\ v_tok.form = "ok"
     /\ v_tok.claims.exp <= v_time
     /\ v_tok.kid \in CandidateKids)
    => (v_result = {} /\ v_tried = 1)

\* C5 (amended): an expired token whose header kid is the kid of a candidate (the
\* current or previous kid as the call read it) and which was signed with the key
\* that kid names is rejected after exactly one candidate has been tried; and
\* whenever a candidate reports expiry, the loop ends with that candidate and the
\* result is invalid.
C5_ExpiredStopsAtSigningKey ==
    /\ (/\ v_pc = "done"
        /\ v_tok.form = "ok"
        /\ v_tok.claims.exp <= v_time
        /\ v_tok.kid \in CandidateKids
        /\ v_tok.sig # NoKey
        /\ v_tok.kid = kid_of[v_tok.sig])
       => (v_result = {} /\ v_tried = 1)
    /\ (v_pc = "done" /\ v_why = "expired")
       => (v_result = {} /\ v_keys[v_tried][1] = v_tok.sig)

\* C5 witness: an expired token signed with the previous key, its kid in the header,
\* was rejected at the first candidate while the current key was never tried
C5_Witness ==
    /\ v_pc = "done"
    /\ Len(v_keys) = 2
    /\ v_tok.form = "ok"
    /\ v_tok.sig = previous_public_key
    /\ v_tok.kid = previous_kid
    /\ v_tok.claims.exp <= v_time
    /\ v_why = "expired"
    /\ v_tried = 1
    /\ v_result = {}

\* C6: verify_signed_jwt returns claims only if the token is well formed, its
\* signature is valid under a candidate key (a key that was current or previous
\* during the call), it is unexpired at the clock jwt.decode read, its audience is
\* "core-service" and its issuer "face-service"; what it returns are the token's claims.
C6_AcceptsOnlyValid ==
    (v_pc = "done" /\ v_result # {}) =>
        /\ v_result = {v_tok.claims}
        /\ v_tok.form = "ok"
        /\ \E i \in 1..Len(v_keys) : v_keys[i][1] = v_tok.sig
        /\ v_tok.sig # NoKey
        /\ v_tok.sig >= v_born - 1
        /\ v_tok.sig <= Completed
        /\ v_tok.claims.exp > v_time
        /\ v_tok.claims.aud = "core-service"
        /\ v_tok.claims.iss = "face-service"

\* C6 witness: a token was accepted by the second candidate, the previous key
C6_Witness ==
    /\ v_pc = "done"
    /\ v_result # {}
    /\ v_tried = 2
    /\ v_keys[2][1] = previous_public_key

\* C7 (as claimed): verifying a token at once (no rotation since the issue call began,
\* before expiry) returns every caller-supplied key with the caller's value, plus
\* iss, aud, iat and exp.
C7_RoundTripAnyPayload ==
    \A t \in issued :
        (/\ v_pc = "done"
         /\ v_tok = t.token
         /\ gen = t.born
         /\ v_time < t.token.claims.exp)
        => /\ v_result # {}
           /\ \A r \in v_result :
                /\ DOMAIN r = DOMAIN t.supplied \cup Reserved
                /\ \A k \in DOMAIN t.supplied : r[k] = t.supplied[k]

\* C7 (amended): for a payload with none of the keys iss, aud, iat and exp,
\* verifying the token at once returns exactly the supplied keys with the caller's
\* values plus iss = "face-service", aud = "core-service", iat and exp = iat + ttl.
C7_RoundTrip ==
    \A t \in issued :
        (/\ v_pc = "done"
         /\ v_tok = t.token
         /\ gen = t.born
         /\ v_time < t.token.claims.exp
         /\ DOMAIN t.supplied \cap Reserved = {})
        => /\ v_result # {}
           /\ \A r \in v_result :
                /\ DOMAIN r = DOMAIN t.supplied \cup Reserved
                /\ \A k \in DOMAIN t.supplied : r[k] = t.supplied[k]
                /\ r.iss = "face-service"
                /\ r.aud = "core-service"
                /\ r.iat <= v_time
                /\ r.exp = r.iat + t.ttl

\* C7 witness: a plain payload came back
C7_Witness ==
    \E t \in issued :
        /\ v_pc = "done"
        /\ v_tok = t.token
        /\ gen = t.born
        /\ t.supplied = PlainPayload
        /\ v_result = {stamp(PlainPayload, t.token.claims.iat, t.ttl)}

\* C8: get_public_jwk returns exactly 1 entry when called before the first rotation
\* has completed and exactly 2 entries when called after it (or after any later
\* rotation), and the kids of the entries it returns are pairwise distinct.
C8_JwkEntryCount ==
    /\ j_pc # "raised"
    /\ j_pc = "done" =>
         /\ Len(j_result) = IF j_born = 1 THEN 1 ELSE 2
         /\ \A a, b \in 1..Len(j_result) : a # b => j_result[a].kid # j_result[b].kid

\* C8 witness: the key set read after the second rotation has two entries
C8_Witness ==
    /\ j_pc = "done"
    /\ j_born = 3
    /\ Len(j_result) = 2
    /\ j_result[1].n = 3
    /\ j_result[2].n = 2

\* C9 (as claimed): after a rotation tick whose generate_keys raised, the rotation
\* task is still alive (sleeping until its next tick, or in it).
C9_RotatorSurvivesFailedTick ==
    (phase = "ready" /\ failures > 0) => rot \in {"sleeping", "running", "cancelled"}

\* C10: after a generate_keys call that raised, the six fields of the store are what
\* they were when the call was entered, the lock is free, and an unexpired token
\* signed with the current or the previous key is still accepted.
C10_FailedRotationKeepsStore ==
    failures > 0 =>
        /\ store = pre
        /\ ~lock
        /\ \A t \in issued :
             (/\ v_pc = "done"
              /\ v_tok = t.token
              /\ t.token.sig \in Live
              /\ v_time < t.token.claims.exp)
             => v_result = {t.token.claims}

\* C10 witness: a tick failed with a previous key in the store, and a token signed
\* with the current key was verified afterwards
C10_Witness ==
    /\ failures > 0
    /\ rot = "crashed"
    /\ previous_public_key # NoKey
    /\ \E t \in issued :
         /\ v_pc = "done"
         /\ v_tok = t.token
         /\ t.token.sig = current_public_key
         /\ v_result = {t.token.claims}

\* C11: in production mode generate_keys always raises and no key field is ever
\* set: the manager is never constructed, the store stays empty, no key is
\* generated, and no caller ever gets to an accessor. A caller that did get to
\* one (in any mode) found a current key.
C11_ProdNeverHoldsKeys ==
    /\ is_prod =>
          /\ phase \in {"boot", "failed"}
          /\ store = <<NoKey, NoKey, NoKid, NoKey, NoKid, -1>>
          /\ gen = 0
          /\ gk_pc \in {"idle", "keygen"}
          /\ rot = "off"
          /\ i_pc = "idle" /\ v_pc = "idle"
    /\ (i_pc # "idle" \/ v_pc # "idle") =>
          (current_private_key # NoKey /\ current_public_key # NoKey)

\* C11 witness: construction was attempted in production mode and raised
C11_Witness ==
    /\ is_prod
    /\ phase = "failed"
    /\ failures = 1
    /\ ~lock

\* C12 (as claimed): every accessor reads the key fields with the lock held, so
\* no accessor step is taken while generate_keys is inside its critical section
\* (the lock is free just before each accessor's read, which then takes it).
C12_ReadsUnderLock ==
    [][(\/ create_begin
        \/ create_encode
        \/ verify_get_public_pem
        \/ verify_get_current_kid
        \/ verify_get_previous_public_pem
        \/ verify_get_previous_kid
        \/ jwks_call) => ~lock]_vars

\* the candidate list a reader would build from the one store state in which
\* generation g is current
snapshot_keys(g) ==
    IF g = 1 THEN << <<1, kid_of[1]>> >>
             ELSE << <<g, kid_of[g]>>, <<g - 1, kid_of[g - 1]>> >>

\* C13 (as claimed): the candidate list verify_signed_jwt has built when it starts
\* decoding is the list of one single store state: the current pair first, then
\* that state's previous pair if it had one, each public key with the kid of its
\* own generation, never two candidates of one generation.
C13_CandidatesAreOneSnapshot ==
    v_pc = "decode" => \E g \in 1..Completed : v_keys = snapshot_keys(g)

\* C14: whenever a caller can take the lock of a constructed manager, the store
\* holds exactly one current key pair (private key, public key and kid all set
\* and of one generation) and at most one previous entry, whose public key and
\* kid are both absent or both set and of one generation, older than the current.
C14_StoreShape ==
    (phase = "ready" /\ ~lock) =>
        /\ current_private_key # NoKey
        /\ current_public_key = current_private_key
        /\ current_kid = kid_of[current_public_key]
        /\ \/ previous_public_key = NoKey /\ previous_kid = NoKid
           \/ /\ previous_public_key \in 1..Completed
              /\ previous_kid = kid_of[previous_public_key]
              /\ previous_public_key # current_public_key

\* C14 witness: a caller reads the store under the lock after two rotations, with
\* both a current and a previous entry present
C14_Witness ==
    /\ phase = "ready"
    /\ j_pc = "done"
    /\ j_born = 3
    /\ Completed = 3
    /\ previous_public_key = 2
    /\ current_public_key = 3

\* C15: no kid is produced twice: the kids of all generations created so far are
\* pairwise different, and the current kid differs from the previous kid in every
\* state of the store a reader of the kids can see (both kid accessors take the
\* lock, so the states inside generate_keys' critical section are not among them).
C15_KidsNeverRepeat ==
    /\ \A a, b \in 1..Len(kid_of) : a # b => kid_of[a] # kid_of[b]
    /\ (~lock /\ current_kid # NoKid) => current_kid # previous_kid

\* C15 witness: three generations whose random suffixes all came out equal
C15_Witness ==
    /\ Completed = 3
    /\ kid_of[1][2] = kid_of[2][2]
    /\ kid_of[2][2] = kid_of[3][2]
    /\ previous_kid = kid_of[2]
    /\ current_kid = kid_of[3]

\* C16: the rotation task is cancelled only out of its sleep, never inside a
\* generate_keys call; between calls the store is whole (the current private and
\* public key are one pair and the previous key is not the current one, so no
\* call stopped between lines 52-54 and lines 57-59); and once the task is
\* cancelled the store never changes again and no generate_keys call starts.
C16_CancelOnlyInSleep ==
    [][/\ (rot # "cancelled" /\ rot' = "cancelled") =>
             (rot = "sleeping" /\ gk_pc = "idle" /\ ~lock)
       /\ (gk_pc' = "idle" /\ phase' = "ready") =>
             /\ current_private_key' = current_public_key'
             /\ previous_public_key' # current_public_key'
       /\ rot = "cancelled" =>
             /\ rot' = "cancelled"
             /\ store' = store
             /\ gk_pc' = "idle"
             /\ gen' = gen]_vars

\* C16 witness: the task was cancelled after its first rotation and a whole
\* interval has passed since without another one
C16_Witness ==
    /\ rot = "cancelled"
    /\ Completed = 2
    /\ now >= last_rotation + Interval
    /\ previous_public_key = 1
    /\ current_public_key = 2

\* C17: after a generate_keys call that returned normally, the previous entry is
\* the current entry the call found (public key and kid), the current entry is a
\* fresh pair held nowhere in the store before, the previous entry the call found
\* is no longer held, and after the first call (construction, which found an
\* empty store) the previous entry is still absent.
C17_RotationShifts ==
    (gk_pc = "idle" /\ failures = 0 /\ Completed >= 1) =>
        /\ previous_public_key = pre[2]
        /\ previous_kid = pre[3]
        /\ current_private_key = Completed
        /\ current_public_key = Completed
        /\ current_kid = kid_of[Completed]
        /\ Completed \notin {pre[1], pre[2], pre[4]}
        /\ current_kid \notin {pre[3], pre[5]}
        /\ pre[4] # NoKey => pre[4] \notin Live
        /\ pre[2] = NoKey => (previous_public_key = NoKey /\ previous_kid = NoKid)

\* C17 witness: the second rotation has returned; it found generation 2 current
\* and generation 1 previous, and a caller now reads the store
C17_Witness ==
    /\ gk_pc = "idle"
    /\ failures = 0
    /\ Completed = 3
    /\ pre[2] = 2
    /\ pre[4] = 1
    /\ previous_public_key = 2
    /\ j_pc = "done"
    /\ j_born = 3

valid_but_for_key(tok, t) ==
    /\ tok.form = "ok"
    /\ tok.sig # NoKey
    /\ tok.claims.iat <= t
    /\ tok.claims.exp > t
    /\ tok.claims.iss = "face-service"
    /\ tok.claims.aud = "core-service"

\* C19: a signature, audience or issuer mismatch on one candidate never ends the
\* loop while an untried candidate remains: a token rejected for such mismatches
\* was tried against every candidate and mismatched each, and an otherwise valid
\* unexpired token signed with a candidate key, or with a key that is (still)
\* current or previous, is accepted whatever its header kid is.
C19_MismatchTriesNext ==
    (v_pc = "done" /\ v_why # "header") =>
        /\ v_why = "exhausted" =>
              /\ v_result = {}
              /\ v_tried = Len(v_keys)
              /\ \A i \in 1..Len(v_keys) :
                   jwt_decode(v_tok, v_keys[i][1], v_time) = "next"
        /\ (/\ valid_but_for_key(v_tok, v_time)
            /\ \/ \E i \in 1..Len(v_keys) : v_keys[i][1] = v_tok.sig
               \/ v_tok.sig \in Live)
           => v_result = {v_tok.claims}

\* C19 witness: a token signed with one live key whose header kid names the
\* other was mismatched by the first candidate and accepted by the second
C19_Witness ==
    /\ v_pc = "done"
    /\ Len(v_keys) = 2
    /\ v_tok.kid = v_keys[1][2]
    /\ v_keys[1][1] # v_tok.sig
    /\ v_keys[2][1] = v_tok.sig
    /\ v_tried = 2
    /\ v_why = "ok"
    /\ v_result = {v_tok.claims}

\* the last instant of the modelled clock
LastTick == (MaxTime \div TimeStep) * TimeStep

\* C20: the rotator rotates only after a full sleep of the interval: starting the
\* task rotates nothing, every generation is created at least one interval after
\* the generation before it, and a sleep that ends within the modelled time is
\* followed by a completed rotation unless the task is cancelled or the rotation
\* fails.
C20_RotatesAfterEverySleep ==
    /\ [](\A g \in 2..Len(kid_of) : kid_of[g][1] >= kid_of[g - 1][1] + Interval)
    /\ [][/\ (rot = "off" /\ rot' # "off") =>
               (rot' = "sleeping" /\ store' = store /\ gen' = gen /\ gk_pc' = "idle")
          /\ (rot = "sleeping" /\ rot' = "running") => now >= last_rotation + Interval]_vars
    /\ \A n \in 1..(MaxGen - 1) :
          (rot = "sleeping" /\ Completed = n /\ wake_at <= LastTick)
          ~> (Completed = n + 1 \/ rot \in {"cancelled", "crashed"})

\* C20 witness: two rotations done, each at the end of a sleep, and the task is
\* asleep again
C20_Witness ==
    /\ rot = "sleeping"
    /\ failures = 0
    /\ Completed = 3
    /\ kid_of[2][1] = kid_of[1][1] + Interval
    /\ kid_of[3][1] = kid_of[2][1] + Interval
    /\ now = last_rotation

\* C21: the token create_signed_jwt returns carries iss = "face-service",
\* aud = "core-service", iat = the time line 15 read and exp = iat + ttl, also
\* when the caller's payload has keys iss, aud, iat or exp of its own; the
\* caller's other keys are kept.
C21_InjectedClaimsWin ==
    \A t \in issued :
        LET c == t.token.claims IN
        /\ c.iss = "face-service"
        /\ c.aud = "core-service"
        /\ c.iat = t.at
        /\ c.iat <= now
        /\ c.exp = c.iat + t.ttl
        /\ DOMAIN c = DOMAIN t.supplied \cup Reserved
        /\ \A k \in DOMAIN t.supplied \ Reserved : c[k] = t.supplied[k]

\* C21 witness: a payload with all four keys set by the caller came back stamped
\* with the values of create_signed_jwt, here with the longer ttl
C21_Witness ==
    \E t \in issued :
        /\ t.supplied = ReservedPayload
        /\ t.ttl = LongTtl
        /\ t.at > 0
        /\ t.token.claims.iss = "face-service"
        /\ t.token.claims.iat # t.supplied.iat

\* C22 (as claimed): whatever string verify_signed_jwt is handed, it never raises
\* and returns the token's claims or None; a token whose header does not parse
\* is rejected before any key is read, and a structurally invalid token (foreign
\* algorithm, payload that is no JSON object) is rejected at the first candidate.
C22_ClaimsOrNoneNeverRaises ==
    /\ v_pc # "raised"
    /\ v_pc = "done" =>
          /\ v_result \in {{}, {v_tok.claims}}
          /\ v_tok.form = "badheader" =>
                (v_result = {} /\ v_read = <<>> /\ v_tried = 0)
          /\ v_tok.form \in {"badalg", "badpayload"} =>
                (v_result = {} /\ v_tried = 1)

\* C23: what one call of get_public_jwk or get_rotation_info returns is the
\* current and previous entry of one store state, the one in which the
\* generation current at the call was installed, whatever rotations run around
\* the call: the key set has the current entry first (never zero entries), then
\* the previous one if that state had it, each kid with its own key; the
\* rotation info has that state's kids and rotation time.
C23_ReadersSeeOneState ==
    /\ j_pc # "raised"
    /\ j_pc = "done" =>
          /\ Len(j_result) = IF j_born = 1 THEN 1 ELSE 2
          /\ j_result[1] = key_to_jwk(j_born, kid_of[j_born])
          /\ j_born > 1 => j_result[2] = key_to_jwk(j_born - 1, kid_of[j_born - 1])
    /\ j_pc = "info" =>
          /\ j_born >= 1
          /\ j_result[1].current_kid = kid_of[j_born]
          /\ j_result[1].previous_kid = IF j_born = 1 THEN NoKid ELSE kid_of[j_born - 1]
          /\ j_result[1].last_rotation = kid_of[j_born][1]
          /\ j_result[1].next_rotation = j_result[1].last_rotation + Interval

\* C23 witness: the rotation info was read between two rotations, and the second
\* has completed since
C23_Witness ==
    /\ j_pc = "info"
    /\ j_born = 2
    /\ Completed = 3
    /\ j_result[1].current_kid = previous_kid
    /\ j_result[1].previous_kid = kid_of[1]

\* the steps of callers that only read the store
Reader ==
    \/ create_begin
    \/ create_encode
    \/ verify_issued
    \/ verify_get_public_pem
    \/ verify_get_current_kid
    \/ verify_get_previous_public_pem
    \/ verify_get_previous_kid
    \/ verify_decode
    \/ verify_return
    \/ jwks_call
    \/ info_call
    \/ key_call
    \/ jwks_return

\* C24: generate_keys is the only operation that changes the store: no step of
\* an accessor, of get_public_jwk, of get_rotation_info, of create_signed_jwt or
\* of verify_signed_jwt changes any of the six fields, and every step that does
\* change one is a step of generate_keys, taken with the lock held.
C24_OnlyGenerateKeysWrites ==
    [][/\ Reader => store' = store
       /\ store' # store => (GkStep /\ lock /\ gk_pc # "idle")]_vars

\* C24 witness: a token was issued, verified and rejected, and the rotation info
\* read, all after the second rotation, which the store still shows
C24_Witness ==
    /\ i_pc = "returned"
    /\ v_pc = "done"
    /\ v_born = 3
    /\ v_result = {}
    /\ j_pc = "info"
    /\ j_born = 3
    /\ Completed = 3
    /\ store = <<3, 3, kid_of[3], 2, kid_of[2], kid_of[3][1]>>

\* C25 (as claimed): with the rotator as the only source of rotations, a token
\* create_signed_jwt issued with a ttl of at most one rotation interval keeps its
\* signing key in the store (current or previous) at every moment before its exp,
\* and every verification of it before its exp returns its claims, also when the
\* issue call ran concurrently with a rotation.
C25_LiveUntilExpiry ==
    \A t \in issued :
        t.ttl <= Interval =>
            /\ (~lock /\ now < t.token.claims.exp) => t.token.sig \in Live
            /\ (/\ v_pc = "done"
                /\ v_tok = t.token
                /\ v_time < t.token.claims.exp)
               => v_result = {t.token.claims}

\* the token was stamped before the rotation after its signing key's own was
\* completed, or no more than interval - ttl after it
stamped_in_time(t) ==
    Completed > t.token.sig =>
        t.at + t.ttl <= kid_of[t.token.sig + 1][1] + Interval

\* C25 (amended): with the rotator as the only source of rotations, a token of
\* create_signed_jwt whose clock read (line 15) came no more than interval - ttl
\* after the rotation that replaced its signing key as current (or before that
\* rotation) keeps its signing key in the store at every moment before its exp,
\* and every verification of it before its exp returns its claims, also when a
\* rotation ran during the issue call.
C25_LiveUntilExpiryIfStampedInTime ==
    \A t \in issued :
        stamped_in_time(t) =>
            /\ (~lock /\ now < t.token.claims.exp) => t.token.sig \in Live
            /\ (/\ v_pc = "done"
                /\ v_tok = t.token
                /\ v_time < t.token.claims.exp)
               => v_result = {t.token.claims}

\* C25 witness: the first rotation completed between the key read and the clock
\* read of the issue call, and the token, signed with the key that rotation
\* replaced and stamped after it, was verified and accepted
C25_Witness ==
    \E t \in issued :
        /\ t.ttl = DefaultTtl
        /\ t.token.sig = 1
        /\ t.born = 1
        /\ Completed >= 2
        /\ t.at > kid_of[2][1]
        /\ stamped_in_time(t)
        /\ v_pc = "done"
        /\ v_tok = t.token
        /\ v_born = 2
        /\ v_result = {t.token.claims}

\* C26: the lock is held only inside a generate_keys call, which can always take
\* its next step (it never waits for the lock it holds) and has released it when
\* it has returned or raised; so every create_signed_jwt and verify_signed_jwt
\* call that has begun returns, also when it began during a rotation or a
\* rotation has failed.
C26_LockAlwaysReleased ==
    /\ [](lock <=> gk_pc # "idle")
    /\ [](gk_pc # "idle" => ENABLED GkStep)
    /\ [](failures > 0 => ~lock)
    /\ lock ~> ~lock
    /\ (i_pc = "encode") ~> (i_pc = "returned")
    /\ (v_pc \notin {"idle", "done", "raised"}) ~> (v_pc = "done")

\* C26 witness: a rotation has failed, and a token issued after it was verified
\* and accepted
C26_Witness ==
    /\ failures = 1
    /\ rot = "crashed"
    /\ ~lock
    /\ Completed = 2
    /\ i_pc = "returned"
    /\ \E t \in issued :
         /\ t.at > kid_of[2][1]
         /\ v_pc = "done"
         /\ v_tok = t.token
         /\ v_result = {t.token.claims}
====
